---- MODULE Spec2Model ----
(***************************************************************************)
(* BOQ & purchase-order management (boq_management_app/app.py): the        *)
(* PO-number counter per location, the delivery ledger of the BOQ items    *)
(* and the "Generate Purchase Order" handler that validates a draft and    *)
(* writes the ledger.                                                      *)
(*                                                                         *)
(* Decimal amounts (DECIMAL(12,2) columns, quantities and prices typed in  *)
(* the data editor) are integers counting thousandths: 1000 is 1.00 and    *)
(* Cent = 10 is 0.01.  A value stored in a DECIMAL(12,2) column is a       *)
(* multiple of Cent.                                                       *)
(***************************************************************************)
EXTENDS Integers, Sequences, FiniteSets, TLC

\* ------------------------------------------------------------------ bounds
MaxSerial == 3      \* calls of the issuer that return, per location
MaxPOs == 2         \* accepted purchase orders per behaviour
MaxMonths == 1      \* months the clock advances

\* ------------------------------------------------------- program constants
NumSlots == 10      \* delivered_qty_1 .. delivered_qty_10
Cent == 10          \* scale 2 of DECIMAL(12,2), in thousandths

Locations == {"HR", "DL"}
Sessions == {"u1", "u2"}
Items == {"A", "B"}
Slots == 1..NumSlots

VARIABLES
    locations,        \* table locations: the location codes
    today,            \* datetime.now(): [year, month]
    po_counters,      \* table po_counters: location_code -> last_serial_number
    boq_items,        \* table boq_items of the project: boq_ref -> row
    session_state,    \* per session: <<>> or <<generated_po_number>>
    po_editor,        \* per session: the edited draft (rows of the data editor)
    outcome,          \* per session: what the last handler run displayed
    issued,           \* per location: the serials generate_po_number returned
    purchase_orders,  \* PO_Number and Items_Count of the accepted POs, in order
    pc,               \* per session: where its script run stands
    local,            \* per session: the local variables of its script run
    tx                \* per session: the writes of its connection not yet committed

vars == <<locations, today, po_counters, boq_items, session_state, po_editor, outcome,
          issued, purchase_orders, pc, local, tx>>

\* ------------------------------------------------------------ fiscal year
\* str(y)[-2:] of a four-digit year
LastTwoDigits(y) == y % 100

\* a resolver whose year starts in May
get_current_financial_year_from_may(d) ==
    IF d.month > 4
    THEN <<LastTwoDigits(d.year), LastTwoDigits(d.year + 1)>>
    ELSE <<LastTwoDigits(d.year - 1), LastTwoDigits(d.year)>>

get_current_financial_year(d) ==
    IF d.month >= 4
    THEN <<LastTwoDigits(d.year), LastTwoDigits(d.year + 1)>>
    ELSE <<LastTwoDigits(d.year - 1), LastTwoDigits(d.year)>>

FirstDay == [year |-> 2026, month |-> 3]

MonthsSince(d) == (d.year - FirstDay.year) * 12 + (d.month - FirstDay.month)

\* ------------------------------------------------------- sequence issuer
\* cursor.fetchone() of SELECT last_serial_number ...: <<>> for no row
SelectCounter(counters, location_code) ==
    IF location_code \in DOMAIN counters THEN <<counters[location_code]>> ELSE <<>>

\* a first serial of 0 for a location without counter row
NextSerialFromZero(result) == IF result # <<>> THEN result[1] + 1 ELSE 0

NextSerial(result) == IF result # <<>> THEN result[1] + 1 ELSE 1

\* a write that stores the serial it read instead of the next one
WriteCounterStale(counters, location_code, next_serial) ==
    [l \in DOMAIN counters \cup {location_code} |->
        IF l = location_code THEN next_serial - 1 ELSE counters[l]]

\* a write that sets the counter of every location to the serial
WriteCounterEveryLocation(counters, location_code, next_serial) ==
    [l \in DOMAIN counters \cup {location_code} |-> next_serial]

\* the table after the UPDATE (row present) or the INSERT (row absent)
WriteCounter(counters, location_code, next_serial) ==
    [l \in DOMAIN counters \cup {location_code} |->
        IF l = location_code THEN next_serial ELSE counters[l]]

\* the characters of the decimal digits, by value + 1
DigitChar == <<"0", "1", "2", "3", "4", "5", "6", "7", "8", "9">>

\* str(n) of an n >= 0, as the sequence of its characters
RECURSIVE Digits(_)
Digits(n) ==
    IF n < 10
    THEN <<DigitChar[n + 1]>>
    ELSE Digits(n \div 10) \o <<DigitChar[(n % 10) + 1]>>

\* a serial formatted as its last three digits
Format03dLastThree(n) ==
    <<DigitChar[((n \div 100) % 10) + 1], DigitChar[((n \div 10) % 10) + 1],
      DigitChar[(n % 10) + 1]>>

\* f"{next_serial:03d}" of an n >= 0: str(n), filled with zeros on the left
\* up to a width of 3
Format03d(n) ==
    IF Len(Digits(n)) >= 3
    THEN Digits(n)
    ELSE [i \in 1..(3 - Len(Digits(n))) |-> "0"] \o Digits(n)

\* f"2K{str(fy_start)[-2:]}-2K{str(fy_end)[-2:]}" of the two year ends
FiscalLabel(fy_year) ==
    <<"2", "K", DigitChar[(fy_year[1] \div 10) + 1], DigitChar[(fy_year[1] % 10) + 1],
      "-",
      "2", "K", DigitChar[(fy_year[2] \div 10) + 1], DigitChar[(fy_year[2] % 10) + 1]>>

\* f"ZTPL-{location_code}/{fy_year}-{next_serial:03d}": the characters of the
\* string, the location code put in as it is
POText(location_code, fy_year, serial) ==
    <<"Z", "T", "P", "L", "-">> \o <<location_code>> \o <<"/">>
        \o FiscalLabel(fy_year) \o <<"-">> \o Format03d(serial)

\* a PO number: the string, and the values it was made from
FormatPONumber(location_code, fy_year, serial) ==
    [location_code |-> location_code, fy_year |-> fy_year, serial |-> serial,
     text |-> POText(location_code, fy_year, serial)]

\* an issuer that starts the serials afresh in the first month of a fiscal year
generate_po_number_per_year(counters, location_code, d) ==
    FormatPONumber(location_code, get_current_financial_year(d),
                   IF d.month = 4
                   THEN 1
                   ELSE NextSerial(SelectCounter(counters, location_code)))

\* the number generate_po_number(location_code) returns
generate_po_number(counters, location_code, d) ==
    FormatPONumber(location_code, get_current_financial_year(d),
                   NextSerial(SelectCounter(counters, location_code)))

\* the preview shown while the session holds no generated number
PreviewPONumber(counters, location_code, d) ==
    FormatPONumber(location_code, get_current_financial_year(d),
                   NextSerial(SelectCounter(counters, location_code)))

\* current_po: the value the "PO Number" text input is pre-filled with
current_po(s, location_code) ==
    IF session_state[s] # <<>>
    THEN session_state[s][1]
    ELSE PreviewPONumber(po_counters, location_code, today)

\* --------------------------------------------------------- delivery ledger
\* a value as a DECIMAL(12,2) column keeps it: rounded to a multiple of Cent,
\* ties away from zero
Round2(x) ==
    IF x >= 0
    THEN ((x + Cent \div 2) \div Cent) * Cent
    ELSE -(((-x + Cent \div 2) \div Cent) * Cent)

RECURSIVE SumSlots(_, _)
\* sum(delivered_list) over the first n slots
SumSlots(delivered, n) ==
    IF n = 0 THEN 0 ELSE SumSlots(delivered, n - 1) + delivered[n]

\* BOQ upload: the totals of an ingested row and the row the INSERT stores
IngestRow(boq_qty, rate, delivered) ==
    LET total_delivery_qty == SumSlots(delivered, NumSlots)
        balance_to_deliver == boq_qty - total_delivery_qty
    IN  [boq_qty |-> Round2(boq_qty),
         rate |-> Round2(rate),
         delivered_qty |-> [i \in Slots |-> Round2(delivered[i])],
         total_delivery_qty |-> Round2(total_delivery_qty),
         balance_to_deliver |-> Round2(balance_to_deliver)]

NoDeliveries == [i \in Slots |-> 0]

\* an update that adds the quantity to every slot of the row
NewRowValuesEverySlot(result, slot_index, quantity) ==
    LET delivered_list == [i \in Slots |-> result.delivered_qty[i] + quantity]
        total_delivered == SumSlots(delivered_list, NumSlots)
        new_balance == result.boq_qty - total_delivered
    IN  [delivered_qty |-> delivered_list,
         total_delivery_qty |-> total_delivered,
         balance_to_deliver |-> new_balance]

\* the values the UPDATE of one PO line computes from the row it selected
NewRowValues(result, slot_index, quantity) ==
    LET delivered_list == [result.delivered_qty EXCEPT ![slot_index] = @ + quantity]
        total_delivered == SumSlots(delivered_list, NumSlots)
        new_balance == result.boq_qty - total_delivered
    IN  [delivered_qty |-> delivered_list,
         total_delivery_qty |-> total_delivered,
         balance_to_deliver |-> new_balance]

\* the row after UPDATE boq_items SET ... WHERE id = item_id
StoreRow(row, values) ==
    [row EXCEPT !.delivered_qty = [i \in Slots |-> Round2(values.delivered_qty[i])],
                !.total_delivery_qty = Round2(values.total_delivery_qty),
                !.balance_to_deliver = Round2(values.balance_to_deliver)]

\* SELECT the row of a PO line, add the quantity to the slot, UPDATE the row
ApplyDelivery(items, boq_ref, slot_index, quantity) ==
    IF boq_ref \in DOMAIN items
    THEN [items EXCEPT ![boq_ref] =
            StoreRow(@, NewRowValues(@, slot_index, quantity))]
    ELSE items

\* ------------------------------------------------------------- the draft
\* A row of the data editor: the cells the user typed are <<value>>, the
\* cells left as read from boq_items are <<>>.
CellValue(cell, read) == IF cell # <<>> THEN cell[1] ELSE read

\* a draft row whose balance cell shows the quantity ordered in the BOQ
DraftRowAsIngested(items, line) ==
    [boq_ref |-> line.boq_ref,
     Quantity |-> line.Quantity,
     Unit_Price |-> CellValue(line.Unit_Price, items[line.boq_ref].rate),
     balance_to_deliver |-> CellValue(line.balance_to_deliver, items[line.boq_ref].boq_qty),
     rate |-> CellValue(line.rate, items[line.boq_ref].rate)]

\* updated_df: po_df as read from boq_items (rate and balance_to_deliver cast
\* to FLOAT, Unit Price pre-filled with rate) with the user's edits applied.
\* The cast keeps the order and the equality of decimals with three places.
DraftRow(items, line) ==
    LET rate == CellValue(line.rate, items[line.boq_ref].rate)
    IN  [boq_ref |-> line.boq_ref,
         Quantity |-> line.Quantity,
         Unit_Price |-> CellValue(line.Unit_Price, items[line.boq_ref].rate),
         balance_to_deliver |->
             CellValue(line.balance_to_deliver, items[line.boq_ref].balance_to_deliver),
         rate |-> rate]

updated_df(items, edits) == [k \in 1..Len(edits) |-> DraftRow(items, edits[k])]

\* ------------------------------------------------------------ validation
\* rate * 1.10 in binary floating point is below the decimal product for
\* these rates (1.13 * 1.10 evaluates to 1.2429999999999999), and not below
\* it for the other rates the model uses
CeilingRoundsBelow(rate) == rate \in {1130}

\* a check that also refuses a quantity equal to the balance
BalanceReached(quantity, balance) == quantity >= balance

\* quantity > balance
BalanceExceeded(quantity, balance) == quantity > balance

\* unit_price > rate * 1.10
PriceCeilingExceeded(unit_price, rate) ==
    \/ unit_price * 10 > rate * 11
    \/ unit_price * 10 = rate * 11 /\ CeilingRoundsBelow(rate)

\* a validation that also checks the rows without quantity
RowErrorsAnyQuantity(row) ==
    IF BalanceExceeded(row.Quantity, row.balance_to_deliver)
    THEN <<[boq_ref |-> row.boq_ref, error |-> "balance",
            limit |-> row.balance_to_deliver, tried |-> row.Quantity]>>
    ELSE IF PriceCeilingExceeded(row.Unit_Price, row.rate)
    THEN <<[boq_ref |-> row.boq_ref, error |-> "price",
            limit |-> (row.rate * 11) \div 10, tried |-> row.Unit_Price]>>
    ELSE <<>>

\* the entries one row appends to error_rows
RowErrors(row) ==
    IF row.Quantity > 0
    THEN IF BalanceExceeded(row.Quantity, row.balance_to_deliver)
         THEN <<[boq_ref |-> row.boq_ref, error |-> "balance",
                 limit |-> row.balance_to_deliver, tried |-> row.Quantity]>>
         ELSE IF PriceCeilingExceeded(row.Unit_Price, row.rate)
         THEN <<[boq_ref |-> row.boq_ref, error |-> "price",
                 limit |-> (row.rate * 11) \div 10, tried |-> row.Unit_Price]>>
         ELSE <<>>
    ELSE <<>>

RECURSIVE ErrorRowsUntilFirst(_, _)
\* a validation loop that breaks at the first row with an error
ErrorRowsUntilFirst(df, n) ==
    IF n = 0 THEN <<>>
    ELSE IF ErrorRowsUntilFirst(df, n - 1) # <<>>
         THEN ErrorRowsUntilFirst(df, n - 1)
         ELSE RowErrors(df[n])

RECURSIVE ErrorRows(_, _)
\* error_rows after the validation loop over the first n rows
ErrorRows(df, n) ==
    IF n = 0 THEN <<>> ELSE ErrorRows(df, n - 1) \o RowErrors(df[n])

\* a flag each row overwrites, so that only the last row decides
LastRowFailed(df) == df # <<>> /\ RowErrors(df[Len(df)]) # <<>>

validation_failed(df) == ErrorRows(df, Len(df)) # <<>>

RECURSIVE UpdateLoop(_, _, _, _)
\* boq_items after the update loop over the first n rows
UpdateLoop(items, df, slot_index, n) ==
    IF n = 0 THEN items
    ELSE LET before == UpdateLoop(items, df, slot_index, n - 1)
         IN  IF df[n].Quantity > 0
             THEN ApplyDelivery(before, df[n].boq_ref, slot_index, df[n].Quantity)
             ELSE before

RECURSIVE Subtotal(_, _)
\* updated_df["Total"].sum() over the first n rows, in millionths
Subtotal(df, n) ==
    IF n = 0 THEN 0 ELSE Subtotal(df, n - 1) + df[n].Quantity * df[n].Unit_Price

ItemsCount(df) == Cardinality({k \in 1..Len(df) : df[k].Quantity > 0})

\* ---------------------------------------------------------- initial state
\* the project's BOQ as ingested: item A 0.03 at rate 1.00, item B 0.01 at
\* rate 1.13; slot 1 of A holds what the uploaded file says was delivered
InitItems(delivered_A) ==
    [i \in Items |->
        IF i = "A"
        THEN IngestRow(3 * Cent, 100 * Cent, [NoDeliveries EXCEPT ![1] = delivered_A])
        ELSE IngestRow(Cent, 113 * Cent, NoDeliveries)]

BlankLine(boq_ref) ==
    [boq_ref |-> boq_ref, Quantity |-> 0, Unit_Price |-> <<>>,
     balance_to_deliver |-> <<>>, rate |-> <<>>]

\* the data editor as first rendered: one row per item, Quantity 0.0
BlankDraft == <<BlankLine("A"), BlankLine("B")>>

NoOutcome == [status |-> "none", error_rows |-> <<>>, po_summary |-> <<>>]

\* a script run that has not started: no local is bound
NoLocals ==
    [location_code |-> "", next_serial |-> 0, po_number |-> <<>>,
     updated_df |-> <<>>, slot_index |-> 0, k |-> 0, result |-> <<>>]

\* a connection with nothing to commit: the rows written, by table and key
NoWrites == [po_counters |-> <<>>, boq_items |-> <<>>]

\* initialize_po_counters gives every row of locations a counter at 0; a
\* location whose counter has not been created yet has no counter row
InitCounters == UNION {[L -> {0}] : L \in SUBSET Locations}

InitWith(deliveredSet) ==
    /\ locations = Locations
    /\ today = FirstDay
    /\ po_counters \in InitCounters
    /\ \E d \in deliveredSet : boq_items = InitItems(d)
    /\ session_state = [s \in Sessions |-> <<>>]
    /\ po_editor = [s \in Sessions |-> BlankDraft]
    /\ outcome = [s \in Sessions |-> NoOutcome]
    /\ issued = [l \in Locations |-> <<>>]
    /\ purchase_orders = <<>>
    /\ pc = [s \in Sessions |-> "idle"]
    /\ local = [s \in Sessions |-> NoLocals]
    /\ tx = [s \in Sessions |-> NoWrites]

\* ------------------------------------------------- handlers, run to the end
MonthPasses ==
    /\ MonthsSince(today) < MaxMonths
    /\ today' = IF today.month = 12
                THEN [year |-> today.year + 1, month |-> 1]
                ELSE [today EXCEPT !.month = @ + 1]
    /\ UNCHANGED <<locations, po_counters, boq_items, session_state, po_editor, outcome,
                   issued, purchase_orders, pc, local, tx>>

\* "Generate New PO Number": generate_po_number, kept in the session state
GenerateNewPONumber(s, location_code) ==
    LET po_number == generate_po_number(po_counters, location_code, today)
    IN  /\ Len(issued[location_code]) < MaxSerial
        /\ po_counters' = WriteCounter(po_counters, location_code, po_number.serial)
        /\ session_state' = [session_state EXCEPT ![s] = <<po_number>>]
        /\ issued' = [issued EXCEPT ![location_code] = Append(@, po_number.serial)]
        /\ outcome' = [outcome EXCEPT ![s] = NoOutcome]
        /\ UNCHANGED <<locations, today, boq_items, po_editor, purchase_orders, pc, local, tx>>

\* the user edits the rows of the data editor
EditDraft(s, edits) ==
    /\ pc[s] = "idle"
    /\ po_editor[s] # edits
    /\ po_editor' = [po_editor EXCEPT ![s] = edits]
    /\ outcome' = [outcome EXCEPT ![s] = NoOutcome]
    /\ UNCHANGED <<locations, today, po_counters, boq_items, session_state, issued,
                   purchase_orders, pc, local, tx>>

\* st.number_input("Enter GST %", value=18.0), left at its default
gst_percent == 18

\* (subtotal * gst_percent) / 100, in hundred-millionths
gst_amount(subtotal) == subtotal * gst_percent

\* subtotal + gst_amount, in hundred-millionths
grand_total(subtotal) == subtotal * 100 + gst_amount(subtotal)

po_summary(po_number, df) ==
    [PO_Number |-> po_number, Subtotal |-> Subtotal(df, Len(df)),
     GST_Percent |-> gst_percent,
     GST_Amount |-> gst_amount(Subtotal(df, Len(df))),
     Grand_Total |-> grand_total(Subtotal(df, Len(df))),
     Items_Count |-> ItemsCount(df)]

\* "Generate Purchase Order": validate every row, then update and commit
GeneratePurchaseOrder(s, location_code, selected_slot, po_number) ==
    LET df == updated_df(boq_items, po_editor[s])
    IN  /\ IF validation_failed(df)
           THEN /\ outcome' = [outcome EXCEPT ![s] =
                       [status |-> "rejected", error_rows |-> ErrorRows(df, Len(df)),
                        po_summary |-> <<>>]]
                /\ UNCHANGED <<boq_items, purchase_orders>>
           ELSE /\ Len(purchase_orders) < MaxPOs
                /\ boq_items' = UpdateLoop(boq_items, df, selected_slot, Len(df))
                /\ purchase_orders' = Append(purchase_orders,
                       [PO_Number |-> po_number, Items_Count |-> ItemsCount(df)])
                /\ outcome' = [outcome EXCEPT ![s] =
                       [status |-> "accepted", error_rows |-> <<>>,
                        po_summary |-> po_summary(po_number, df)]]
        /\ UNCHANGED <<locations, today, po_counters, session_state, po_editor, issued,
                       pc, local, tx>>

\* --------------------------------------- handlers, statement by statement
\* Every script run works on its own connection (get_connection), which
\* opens a transaction at its first statement and holds no autocommit.  The
\* server runs READ COMMITTED: a SELECT sees the committed rows and the rows
\* its own transaction wrote; an UPDATE of a row another open transaction
\* wrote waits for that transaction to end.

\* the rows of a transaction after it wrote the row under a key
Pending(writes, key, row) ==
    [x \in DOMAIN writes \cup {key} |-> IF x = key THEN row ELSE writes[x]]

\* an UPDATE that the server commits at once, as under autocommit
ExecuteUpdateAutocommit(stored, writes, key, row) ==
    [stored |-> Pending(stored, key, row), writes |-> writes]

\* cursor.execute("UPDATE boq_items SET ... WHERE id = %s"): the stored table
\* and the rows of the transaction after the statement
ExecuteUpdate(stored, writes, key, row) ==
    [stored |-> stored, writes |-> Pending(writes, key, row)]

\* conn.commit(): the table with the rows of the transaction stored
Commit(table, writes) ==
    [x \in DOMAIN table \cup DOMAIN writes |->
        IF x \in DOMAIN writes THEN writes[x] ELSE table[x]]

\* the row a SELECT of the transaction sees
ReadRow(table, writes, key) ==
    IF key \in DOMAIN writes THEN writes[key] ELSE table[key]

\* another open transaction wrote the row: the UPDATE waits
RowLocked(s, table_name, key) ==
    \E t \in Sessions \ {s} : key \in DOMAIN tx[t][table_name]

\* generate_po_number up to the fetchone: fy_year, SELECT, next_serial
IssuerSelect(s, location_code) ==
    LET po_number == generate_po_number(po_counters, location_code, today)
    IN  /\ pc[s] = "idle"
        /\ po_number.serial <= MaxSerial
        /\ pc' = [pc EXCEPT ![s] = "issuer_update"]
        /\ local' = [local EXCEPT ![s] =
               [NoLocals EXCEPT !.location_code = location_code,
                                !.next_serial = po_number.serial,
                                !.po_number = <<po_number>>]]
        /\ UNCHANGED <<locations, today, po_counters, boq_items, session_state, po_editor,
                       outcome, issued, purchase_orders, tx>>

\* the UPDATE of the counter on a connection that commits every statement
IssuerUpdateAutocommit(s) ==
    /\ pc[s] = "issuer_update"
    /\ ~RowLocked(s, "po_counters", local[s].location_code)
    /\ po_counters' = WriteCounter(po_counters, local[s].location_code,
                                    local[s].next_serial)
    /\ pc' = [pc EXCEPT ![s] = "issuer_commit"]
    /\ UNCHANGED <<locations, today, boq_items, session_state, po_editor, outcome, issued,
                   purchase_orders, local, tx>>

\* generate_po_number: the UPDATE (or INSERT) of the counter with next_serial
IssuerUpdate(s) ==
    /\ pc[s] = "issuer_update"
    /\ ~RowLocked(s, "po_counters", local[s].location_code)
    /\ tx' = [tx EXCEPT ![s].po_counters =
           WriteCounter(@, local[s].location_code, local[s].next_serial)]
    /\ pc' = [pc EXCEPT ![s] = "issuer_commit"]
    /\ UNCHANGED <<locations, today, po_counters, boq_items, session_state, po_editor,
                   outcome, issued, purchase_orders, local>>

\* generate_po_number: conn.commit() and the return to the button handler
IssuerCommit(s) ==
    /\ pc[s] = "issuer_commit"
    /\ po_counters' = Commit(po_counters, tx[s].po_counters)
    /\ tx' = [tx EXCEPT ![s] = NoWrites]
    /\ session_state' = [session_state EXCEPT ![s] = local[s].po_number]
    /\ issued' = [issued EXCEPT ![local[s].location_code] =
           Append(@, local[s].next_serial)]
    /\ outcome' = [outcome EXCEPT ![s] = NoOutcome]
    /\ pc' = [pc EXCEPT ![s] = "idle"]
    /\ local' = [local EXCEPT ![s] = NoLocals]
    /\ UNCHANGED <<locations, today, boq_items, po_editor, purchase_orders>>

\* generate_po_number has no try: an exception of cursor.execute(UPDATE or
\* INSERT) or of conn.commit() leaves the function and the script run without
\* a return value, so session_state['generated_po_number'] is not assigned;
\* the connection ends with its transaction open and the server rolls back
IssuerFailure(s) ==
    /\ pc[s] \in {"issuer_update", "issuer_commit"}
    /\ tx' = [tx EXCEPT ![s] = NoWrites]
    /\ outcome' = [outcome EXCEPT ![s] =
           [status |-> "failed", error_rows |-> <<>>, po_summary |-> <<>>]]
    /\ pc' = [pc EXCEPT ![s] = "idle"]
    /\ UNCHANGED <<locations, today, po_counters, boq_items, session_state, po_editor,
                   issued, purchase_orders, local>>

\* the script runs whose update loop has started and not ended
Updating == {t \in Sessions : pc[t] \in {"select_row", "update_row"}}

\* a click on "Generate Purchase Order": the script reads po_df, applies the
\* edits of the data editor and runs the validation loop
ClickGeneratePurchaseOrder(s, location_code, selected_slot) ==
    LET df == updated_df(boq_items, po_editor[s])
    IN  /\ pc[s] = "idle"
        /\ IF validation_failed(df)
           THEN /\ outcome' = [outcome EXCEPT ![s] =
                       [status |-> "rejected", error_rows |-> ErrorRows(df, Len(df)),
                        po_summary |-> <<>>]]
                /\ UNCHANGED <<pc, local>>
           ELSE /\ Len(purchase_orders) + Cardinality(Updating) < MaxPOs
                /\ outcome' = [outcome EXCEPT ![s] = NoOutcome]
                /\ pc' = [pc EXCEPT ![s] = "select_row"]
                /\ local' = [local EXCEPT ![s] =
                       [NoLocals EXCEPT !.po_number = <<current_po(s, location_code)>>,
                                        !.updated_df = df,
                                        !.slot_index = selected_slot,
                                        !.k = 1]]
        /\ UNCHANGED <<locations, today, po_counters, boq_items, session_state, po_editor,
                       issued, purchase_orders, tx>>

\* the update loop at row k: skip a row without quantity, SELECT the item's
\* row otherwise
SelectRow(s) ==
    LET df == local[s].updated_df
        k == local[s].k
    IN  /\ pc[s] = "select_row"
        /\ k <= Len(df)
        /\ IF df[k].Quantity > 0
           THEN /\ local' = [local EXCEPT ![s].result =
                       <<ReadRow(boq_items, tx[s].boq_items, df[k].boq_ref)>>]
                /\ pc' = [pc EXCEPT ![s] = "update_row"]
           ELSE /\ local' = [local EXCEPT ![s].k = k + 1]
                /\ UNCHANGED pc
        /\ UNCHANGED <<locations, today, po_counters, boq_items, session_state, po_editor,
                       outcome, issued, purchase_orders, tx>>

\* the update loop at row k: compute the new values from the selected row
\* and UPDATE the item's row
UpdateRow(s) ==
    LET row == local[s].updated_df[local[s].k]
        values == NewRowValues(local[s].result[1], local[s].slot_index, row.Quantity)
        written == ExecuteUpdate(boq_items, tx[s].boq_items, row.boq_ref,
                       StoreRow(ReadRow(boq_items, tx[s].boq_items, row.boq_ref), values))
    IN  /\ pc[s] = "update_row"
        /\ ~RowLocked(s, "boq_items", row.boq_ref)
        /\ boq_items' = written.stored
        /\ tx' = [tx EXCEPT ![s].boq_items = written.writes]
        /\ local' = [local EXCEPT ![s].k = @ + 1, ![s].result = <<>>]
        /\ pc' = [pc EXCEPT ![s] = "select_row"]
        /\ UNCHANGED <<locations, today, po_counters, session_state, po_editor, outcome,
                       issued, purchase_orders>>

\* after the last row: conn.commit() and the po_summary
CommitPurchaseOrder(s) ==
    LET df == local[s].updated_df
    IN  /\ pc[s] = "select_row"
        /\ local[s].k > Len(df)
        /\ boq_items' = Commit(boq_items, tx[s].boq_items)
        /\ tx' = [tx EXCEPT ![s] = NoWrites]
        /\ purchase_orders' = Append(purchase_orders,
               [PO_Number |-> local[s].po_number[1], Items_Count |-> ItemsCount(df)])
        /\ outcome' = [outcome EXCEPT ![s] =
               [status |-> "accepted", error_rows |-> <<>>,
                po_summary |-> po_summary(local[s].po_number[1], df)]]
        /\ pc' = [pc EXCEPT ![s] = "idle"]
        /\ local' = [local EXCEPT ![s] = NoLocals]
        /\ UNCHANGED <<locations, today, po_counters, session_state, po_editor, issued>>

\* a statement of the update loop raises (connection lost, lock timeout,
\* deadlock victim): the script run ends without conn.commit(), and the
\* server rolls the transaction of the dropped connection back
StorageFailure(s) ==
    /\ pc[s] \in {"select_row", "update_row"}
    /\ tx' = [tx EXCEPT ![s] = NoWrites]
    /\ outcome' = [outcome EXCEPT ![s] =
           [status |-> "failed", error_rows |-> <<>>, po_summary |-> <<>>]]
    /\ pc' = [pc EXCEPT ![s] = "idle"]
    /\ UNCHANGED <<locations, today, po_counters, boq_items, session_state, po_editor,
                   issued, purchase_orders, local>>

\* --------------------------------- numbering and purchase orders, one user
Line(boq_ref, quantity) == [BlankLine(boq_ref) EXCEPT !.Quantity = quantity]

SimpleDrafts == {BlankDraft, <<Line("A", Cent), BlankLine("B")>>,
                 <<Line("A", 3 * Cent), BlankLine("B")>>}

\* every location has its counter row, the "PO Number" input is left as
\* pre-filled and the first slot is selected, in one browser session
Init == InitWith({0}) /\ po_counters = [l \in Locations |-> 0]

Next ==
    \/ \E l \in Locations : GenerateNewPONumber("u1", l)
    \/ \E d \in SimpleDrafts : EditDraft("u1", d)
    \/ \E l \in Locations : GeneratePurchaseOrder("u1", l, 1, current_po("u1", l))

\* ------------------------------------------- the sequence issuer, two users
InitIssuer == InitWith({0})

NextIssuer ==
    \/ MonthPasses
    \/ \E s \in Sessions, l \in Locations : GenerateNewPONumber(s, l)

SpecIssuer == InitIssuer /\ [][NextIssuer]_vars

\* the sequence issuer called for codes that have no row in po_counters
InitIssuerNoRow == InitWith({0}) /\ DOMAIN po_counters = {}

SpecIssuerNoRow == InitIssuerNoRow /\ [][NextIssuer]_vars

\* the issuer where the counters have reached the serials before a new digit
StartSerials == {0, 8, 98, 997, 9998, 12344}

InitFormat ==
    /\ locations = Locations
    /\ today = FirstDay
    /\ po_counters \in [Locations -> StartSerials]
    /\ boq_items = InitItems(0)
    /\ session_state = [s \in Sessions |-> <<>>]
    /\ po_editor = [s \in Sessions |-> BlankDraft]
    /\ outcome = [s \in Sessions |-> NoOutcome]
    /\ issued = [l \in Locations |-> <<>>]
    /\ purchase_orders = <<>>
    /\ pc = [s \in Sessions |-> "idle"]
    /\ local = [s \in Sessions |-> NoLocals]
    /\ tx = [s \in Sessions |-> NoWrites]

SpecFormat == InitFormat /\ [][NextIssuer]_vars

\* ------------------------------------------------- the projects and their BOQs
\* boq_items over several projects: the rows by id, each with the project_id
\* and the boq_ref it was ingested with
ProjectIds == 1..3

RowIds == 1..(2 * Cardinality(ProjectIds))

RowProject(id) == ((id - 1) \div 2) + 1

RowRef(id) == IF id % 2 = 1 THEN "A" ELSE "B"

ProjectRow(id, delivered_1) ==
    LET row == IngestRow(3 * Cent, 100 * Cent, [NoDeliveries EXCEPT ![1] = delivered_1])
    IN  [project_id |-> RowProject(id), boq_ref |-> RowRef(id),
         boq_qty |-> row.boq_qty, rate |-> row.rate,
         delivered_qty |-> row.delivered_qty,
         total_delivery_qty |-> row.total_delivery_qty,
         balance_to_deliver |-> row.balance_to_deliver]

\* the tables where every project has a BOQ item, with or without a delivery
ProjectTables ==
    {[id \in DOMAIN f |-> ProjectRow(id, f[id])] :
        f \in {g \in UNION {[S -> {0, Cent}] : S \in SUBSET RowIds} :
                  \A q \in ProjectIds : \E id \in DOMAIN g : RowProject(id) = q}}

\* a projects table whose deletions leave the BOQ items in place
DeleteWithoutCascade(items, project_id) == items

\* project_id INTEGER REFERENCES projects(id) ON DELETE CASCADE: the rows of
\* boq_items after DELETE FROM projects WHERE id = project_id
DeleteCascade(items, project_id) ==
    [id \in {i \in DOMAIN items : items[i].project_id # project_id} |-> items[id]]

\* "Delete This Project": DELETE FROM projects, commit, st.success
DeleteProject(s, project_id) ==
    /\ \E id \in DOMAIN boq_items : boq_items[id].project_id = project_id
    /\ boq_items' = DeleteCascade(boq_items, project_id)
    /\ outcome' = [outcome EXCEPT ![s] =
           [status |-> "deleted", error_rows |-> <<>>, po_summary |-> <<>>]]
    /\ UNCHANGED <<locations, today, po_counters, session_state, po_editor, issued,
                   purchase_orders, pc, local, tx>>

InitProjects ==
    /\ locations = Locations
    /\ today = FirstDay
    /\ po_counters = [l \in Locations |-> 0]
    /\ boq_items \in ProjectTables
    /\ session_state = [s \in Sessions |-> <<>>]
    /\ po_editor = [s \in Sessions |-> BlankDraft]
    /\ outcome = [s \in Sessions |-> NoOutcome]
    /\ issued = [l \in Locations |-> <<>>]
    /\ purchase_orders = <<>>
    /\ pc = [s \in Sessions |-> "idle"]
    /\ local = [s \in Sessions |-> NoLocals]
    /\ tx = [s \in Sessions |-> NoWrites]

NextProjects == \E project_id \in ProjectIds : DeleteProject("u1", project_id)

SpecProjects == InitProjects /\ [][NextProjects]_vars

\* ------------------------------------------------------- location management
\* the admin (u1) adds and deletes locations, a second user (u2) generates
\* numbers, and the admin looks at the PO tab
\* DELETE FROM po_counters WHERE location_code = %s
DeleteCounter(counters, location_code) ==
    [l \in DOMAIN counters \ {location_code} |-> counters[l]]

\* an Add Location that overwrites what the tables hold for the code
AddLocationUpsert(s, new_location_code) ==
    /\ pc[s] = "idle"
    /\ locations' = locations \cup {new_location_code}
    /\ po_counters' = WriteCounter(po_counters, new_location_code, 0)
    /\ outcome' = [outcome EXCEPT ![s] =
           [status |-> "added", error_rows |-> <<>>, po_summary |-> <<>>]]
    /\ UNCHANGED <<today, boq_items, session_state, po_editor, issued,
                   purchase_orders, pc, local, tx>>

\* "Add Location": INSERT INTO locations, INSERT INTO po_counters with 0,
\* commit.  A code that locations or po_counters already holds violates the
\* UNIQUE constraint of the table: the INSERT raises "duplicate key value",
\* the handler shows the error and nothing is committed.
AddLocation(s, new_location_code) ==
    /\ pc[s] = "idle"
    /\ IF new_location_code \in locations \/ new_location_code \in DOMAIN po_counters
       THEN /\ outcome' = [outcome EXCEPT ![s] =
                   [status |-> "rejected",
                    error_rows |-> <<[location_code |-> new_location_code,
                                      error |-> "already exists"]>>,
                    po_summary |-> <<>>]]
            /\ UNCHANGED <<locations, po_counters>>
       ELSE /\ locations' = locations \cup {new_location_code}
            /\ po_counters' = WriteCounter(po_counters, new_location_code, 0)
            /\ outcome' = [outcome EXCEPT ![s] =
                   [status |-> "added", error_rows |-> <<>>, po_summary |-> <<>>]]
    /\ UNCHANGED <<today, boq_items, session_state, po_editor, issued,
                   purchase_orders, pc, local, tx>>

\* "Delete Location" of a location the page lists: DELETE FROM po_counters,
\* DELETE FROM locations, commit
DeleteLocation(s, loc_code) ==
    /\ pc[s] = "idle"
    /\ loc_code \in locations
    /\ po_counters' = DeleteCounter(po_counters, loc_code)
    /\ locations' = locations \ {loc_code}
    /\ outcome' = [outcome EXCEPT ![s] =
           [status |-> "deleted", error_rows |-> <<>>, po_summary |-> <<>>]]
    /\ UNCHANGED <<today, boq_items, session_state, po_editor, issued,
                   purchase_orders, pc, local, tx>>

\* the PO tab rendered for a location: current_po, the generated number of
\* the session or else the preview of the next number, is shown
RenderPONumber(s, location_code) ==
    /\ pc[s] = "idle"
    /\ local' = [local EXCEPT ![s] =
           [NoLocals EXCEPT !.location_code = location_code,
                            !.po_number = <<current_po(s, location_code)>>]]
    /\ local' # local
    /\ UNCHANGED <<locations, today, po_counters, boq_items, session_state,
                   po_editor, outcome, issued, purchase_orders, pc, tx>>

InitLocations == InitWith({0}) /\ po_counters = [l \in Locations |-> 0]

NextLocations ==
    \/ \E l \in Locations : AddLocation("u1", l)
    \/ \E l \in Locations : DeleteLocation("u1", l)
    \/ \E l \in Locations :
          /\ l \in locations
          /\ GenerateNewPONumber("u2", l)
    \/ \E l \in Locations :
          /\ l \in locations
          /\ RenderPONumber("u1", l)

SpecLocations == InitLocations /\ [][NextLocations]_vars

\* ------------------------------------------------ the issuer over the calendar
\* datetime.now() as a calendar date: the days of the years 2024 to 2026
DaysInMonth(year, month) ==
    IF month = 2
    THEN (IF year % 4 = 0 /\ (year % 100 # 0 \/ year % 400 = 0) THEN 29 ELSE 28)
    ELSE IF month \in {4, 6, 9, 11} THEN 30 ELSE 31

CalendarDates ==
    {d \in [year : 2024..2026, month : 1..12, day : 1..31] :
        d.day <= DaysInMonth(d.year, d.month)}

\* the clock reaches the next day
DayPasses ==
    /\ today' = IF today.day < DaysInMonth(today.year, today.month)
                THEN [today EXCEPT !.day = @ + 1]
                ELSE IF today.month < 12
                     THEN [today EXCEPT !.month = @ + 1, !.day = 1]
                     ELSE [year |-> today.year + 1, month |-> 1, day |-> 1]
    /\ today' \in CalendarDates
    /\ UNCHANGED <<locations, po_counters, boq_items, session_state, po_editor, outcome,
                   issued, purchase_orders, pc, local, tx>>

InitCalendar ==
    /\ locations = Locations
    /\ today \in CalendarDates
    /\ po_counters = [l \in Locations |-> 0]
    /\ boq_items = InitItems(0)
    /\ session_state = [s \in Sessions |-> <<>>]
    /\ po_editor = [s \in Sessions |-> BlankDraft]
    /\ outcome = [s \in Sessions |-> NoOutcome]
    /\ issued = [l \in Locations |-> <<>>]
    /\ purchase_orders = <<>>
    /\ pc = [s \in Sessions |-> "idle"]
    /\ local = [s \in Sessions |-> NoLocals]
    /\ tx = [s \in Sessions |-> NoWrites]

NextCalendar ==
    \/ DayPasses
    \/ \E s \in Sessions : GenerateNewPONumber(s, "HR")

SpecCalendar == InitCalendar /\ [][NextCalendar]_vars

Spec == Init /\ [][Next]_vars

\* --------------------------------------- allocation, one user, rich drafts
Quantities == {0, Cent \div 2, Cent, 2 * Cent}

\* rate * 1.10 as a decimal
Ceiling(boq_ref) == (InitItems(0)[boq_ref].rate * 11) \div 10

\* one-row drafts: any quantity, with the unit price left as pre-filled,
\* typed at the ceiling or typed 0.01 above it, or with the balance cell
\* overtyped
EditedLines ==
    UNION {{[boq_ref |-> i, Quantity |-> q, Unit_Price |-> c[1],
             balance_to_deliver |-> c[2], rate |-> <<>>] :
               q \in Quantities,
               c \in {<< <<>>, <<>> >>, << <<Ceiling(i)>>, <<>> >>,
                      << <<Ceiling(i) + Cent>>, <<>> >>, << <<>>, <<3 * Cent>> >>}} :
           i \in Items}

\* rows of the two-row drafts: quantity 0.01, the unit price as pre-filled or
\* 0.01 above the ceiling
PlainLines ==
    UNION {{[boq_ref |-> i, Quantity |-> Cent, Unit_Price |-> p,
             balance_to_deliver |-> <<>>, rate |-> <<>>] :
               p \in {<<>>, <<Ceiling(i) + Cent>>}} : i \in Items}

\* the one-row drafts, and the two-row drafts whose first row is for item A
AllocDrafts ==
    {<<l>> : l \in EditedLines}
        \cup {<<l, m>> : l \in {x \in PlainLines : x.boq_ref = "A"}, m \in PlainLines}

\* the slots the user selects: the first and the last
SlotsUsed == {1, NumSlots}

InitAlloc == InitWith({Cent}) /\ po_counters = [l \in Locations |-> 0]

NextAlloc ==
    \/ \E d \in AllocDrafts : EditDraft("u1", d)
    \/ \E k \in SlotsUsed : GeneratePurchaseOrder("u1", "HR", k, current_po("u1", "HR"))

SpecAlloc == InitAlloc /\ [][NextAlloc]_vars

\* ------------------------------ validation of two-row drafts, one user
\* the rows typed for an item: not ordered (with a price above the ceiling),
\* in order, above the balance, above the ceiling, above both, or with a
\* negative quantity typed
LineKinds(boq_ref) ==
    {[boq_ref |-> boq_ref, Quantity |-> q, Unit_Price |-> p,
      balance_to_deliver |-> <<>>, rate |-> <<>>] :
         q \in {-Cent, 0, Cent, 4 * Cent}, p \in {<<>>, <<Ceiling(boq_ref) + Cent>>}}

\* a row for item A and a row for item B
LineDrafts == {<<l, m>> : l \in LineKinds("A"), m \in LineKinds("B")}

InitLines == InitWith({0}) /\ po_counters = [l \in Locations |-> 0]

NextLines ==
    \/ \E d \in LineDrafts : EditDraft("u1", d)
    \/ GeneratePurchaseOrder("u1", "HR", 1, current_po("u1", "HR"))

SpecLines == InitLines /\ [][NextLines]_vars

\* ------------------------- allocations one after the other, whole units
\* 1.00 in thousandths
Unit == 100 * Cent

\* item A: 100 ordered at rate 0.20, nothing delivered; item B as before
\* (the rate keeps the totals of a PO within the integers of the checker)
ScenarioItems ==
    [i \in Items |->
        IF i = "A"
        THEN IngestRow(100 * Unit, 20 * Cent, NoDeliveries)
        ELSE IngestRow(Cent, 113 * Cent, NoDeliveries)]

\* one row for A asking 40, 50 or 60 at the rate or at 0.21, alone or
\* followed by a row for B that is not ordered
ScenarioDrafts ==
    UNION {{<<[Line("A", q * Unit) EXCEPT !.Unit_Price = p]>>,
            <<[Line("A", q * Unit) EXCEPT !.Unit_Price = p], BlankLine("B")>>} :
               q \in {40, 50, 60}, p \in {<<>>, <<21 * Cent>>}}

InitScenario ==
    /\ locations = Locations
    /\ today = FirstDay
    /\ po_counters = [l \in Locations |-> 0]
    /\ boq_items = ScenarioItems
    /\ session_state = [s \in Sessions |-> <<>>]
    /\ po_editor = [s \in Sessions |-> BlankDraft]
    /\ outcome = [s \in Sessions |-> NoOutcome]
    /\ issued = [l \in Locations |-> <<>>]
    /\ purchase_orders = <<>>
    /\ pc = [s \in Sessions |-> "idle"]
    /\ local = [s \in Sessions |-> NoLocals]
    /\ tx = [s \in Sessions |-> NoWrites]

NextScenario ==
    \/ \E d \in ScenarioDrafts : EditDraft("u1", d)
    \/ \E k \in {1, 2} : GeneratePurchaseOrder("u1", "HR", k, current_po("u1", "HR"))

SpecScenario == InitScenario /\ [][NextScenario]_vars

\* ------------------------- the sequence issuer, two users, step by step
InitIssuerSteps == InitWith({0}) /\ po_counters = [l \in Locations |-> 0]

NextIssuerSteps ==
    \/ \E s \in Sessions, l \in Locations : IssuerSelect(s, l)
    \/ \E s \in Sessions : IssuerUpdate(s)
    \/ \E s \in Sessions : IssuerCommit(s)

SpecIssuerSteps == InitIssuerSteps /\ [][NextIssuerSteps]_vars

\* one user's calls of the issuer, statement by statement, where the UPDATE
\* (or INSERT) and the commit may raise; the user may then click again
NextIssuerFailure ==
    \/ \E l \in Locations : IssuerSelect("u1", l)
    \/ IssuerUpdate("u1")
    \/ IssuerCommit("u1")
    \/ IssuerFailure("u1")

SpecIssuerFailure == InitIssuerSteps /\ [][NextIssuerFailure]_vars

\* ------------------------------- allocation, two users, step by step
\* drafts with the cells as read: one row for A, or a row for each item
StepDrafts == {<<Line("A", 2 * Cent)>>, <<Line("A", Cent), Line("B", Cent)>>}

InitSteps == InitWith({0}) /\ po_counters = [l \in Locations |-> 0]

NextSteps ==
    \/ \E s \in Sessions, d \in StepDrafts : EditDraft(s, d)
    \/ \E s \in Sessions : ClickGeneratePurchaseOrder(s, "HR", 1)
    \/ \E s \in Sessions : SelectRow(s)
    \/ \E s \in Sessions : UpdateRow(s)
    \/ \E s \in Sessions : CommitPurchaseOrder(s)
    \/ \E s \in Sessions : StorageFailure(s)

SpecSteps == InitSteps /\ [][NextSteps]_vars

\* C1: over calls of generate_po_number that do not overlap, the serials a
\* location receives are strictly increasing, and after each call the stored
\* last_serial_number of the location is the serial just returned.
C1_SerialsIncreaseAndAreStored ==
    \A l \in Locations :
        /\ \A i, j \in 1..Len(issued[l]) : i < j => issued[l][i] < issued[l][j]
        /\ issued[l] # <<>> =>
              /\ l \in DOMAIN po_counters
              /\ po_counters[l] = issued[l][Len(issued[l])]

\* a location has been issued three serials, one after the other
C1_Witness == \E l \in Locations : Len(issued[l]) >= 3

\* ------------------------------------------------------------ allocation
\* a row with a positive quantity fails the balance check or the price check
LineFails(row) ==
    /\ row.Quantity > 0
    /\ \/ row.Quantity > row.balance_to_deliver
       \/ PriceCeilingExceeded(row.Unit_Price, row.rate)

AnyLineFails(df) == \E k \in 1..Len(df) : LineFails(df[k])

TheDraft == updated_df(boq_items, po_editor["u1"])

\* C3: when a row with a positive quantity fails the balance check or the
\* price check, the run of Generate Purchase Order is rejected and no field
\* of any row of boq_items changes, the rows of the passing lines included.
C3_RejectionChangesNoLedgerRow ==
    [][AnyLineFails(TheDraft) =>
          /\ boq_items' = boq_items
          /\ po_editor' = po_editor => outcome'["u1"].status = "rejected"]_vars

\* a two-row draft was rejected whose first row passes and whose second fails
C3_Witness ==
    /\ outcome["u1"].status = "rejected"
    /\ Len(TheDraft) = 2
    /\ TheDraft[1].Quantity > 0
    /\ ~LineFails(TheDraft[1])
    /\ LineFails(TheDraft[2])

\* C4: an item whose balance was not negative keeps a balance_to_deliver that
\* is not negative over allocations made one at a time.
C4_BalanceNeverNegative ==
    \A i \in Items : boq_items[i].balance_to_deliver >= 0

\* C6: for every item total_delivery_qty is the sum of the ten slots and
\* balance_to_deliver is boq_qty minus total_delivery_qty.
C6_TotalsConsistent ==
    \A i \in Items :
        /\ boq_items[i].total_delivery_qty = SumSlots(boq_items[i].delivered_qty, NumSlots)
        /\ boq_items[i].balance_to_deliver =
              boq_items[i].boq_qty - boq_items[i].total_delivery_qty

\* a one-row draft with a positive quantity, cells as read, price in the ceiling
PlainSingleLine ==
    /\ Len(po_editor["u1"]) = 1
    /\ po_editor["u1"][1].Quantity > 0
    /\ po_editor["u1"][1].balance_to_deliver = <<>>
    /\ po_editor["u1"][1].rate = <<>>
    /\ ~PriceCeilingExceeded(TheDraft[1].Unit_Price, TheDraft[1].rate)

\* C10: a line with a positive quantity and a unit price within the ceiling
\* is accepted exactly when its quantity is at most the item's stored balance:
\* accepted at the balance itself, rejected 0.01 above it.
C10_AcceptedIffWithinBalance ==
    [][PlainSingleLine /\ po_editor' = po_editor =>
          (outcome'["u1"].status = "accepted" <=>
              po_editor["u1"][1].Quantity
                  <= boq_items[po_editor["u1"][1].boq_ref].balance_to_deliver)]_vars

\* a line asking for exactly the balance was accepted and left balance zero
C10_Witness ==
    /\ PlainSingleLine
    /\ outcome["u1"].status = "accepted"
    /\ po_editor["u1"][1].Quantity = Cent
    /\ boq_items[po_editor["u1"][1].boq_ref].balance_to_deliver = 0
    /\ boq_items[po_editor["u1"][1].boq_ref].total_delivery_qty =
          boq_items[po_editor["u1"][1].boq_ref].boq_qty

\* ------------------------------------------------- numbering of the POs
\* the accepted POs that recorded at least one delivery
DeliveredPOs == {k \in 1..Len(purchase_orders) : purchase_orders[k].Items_Count > 0}

\* the serial was returned by generate_po_number for the location
Issued(location_code, serial) ==
    /\ location_code \in Locations
    /\ \E i \in 1..Len(issued[location_code]) : issued[location_code][i] = serial

\* C7: the ledger updates of an accepted PO and the bump of the location's
\* counter commit together: no state has a PO's deliveries recorded without
\* its serial issued, or a serial issued without a PO's deliveries recorded.
C7_SerialAndDeliveriesTogether ==
    /\ \A k \in DeliveredPOs :
          Issued(purchase_orders[k].PO_Number.location_code,
                 purchase_orders[k].PO_Number.serial)
    /\ \A l \in Locations : \A i \in 1..Len(issued[l]) :
          \E k \in DeliveredPOs :
              /\ purchase_orders[k].PO_Number.location_code = l
              /\ purchase_orders[k].PO_Number.serial = issued[l][i]

\* C9: the PO numbers of the accepted POs are pairwise distinct, each carries
\* a serial issued for its location, and no issued serial is carried by two POs.
C9_NumbersDistinctAndIssued ==
    /\ \A j, k \in DeliveredPOs :
          j # k => purchase_orders[j].PO_Number # purchase_orders[k].PO_Number
    /\ \A k \in DeliveredPOs :
          Issued(purchase_orders[k].PO_Number.location_code,
                 purchase_orders[k].PO_Number.serial)

\* ------------------------------------------------- concurrent script runs
\* the serials a location was issued, as a set
IssuedSerials(location_code) ==
    {issued[location_code][i] : i \in 1..Len(issued[location_code])}

\* C2: the calls of generate_po_number for a location whose counter was 0,
\* interleaved in any way, receive pairwise distinct serials, and once the N
\* calls made have returned the serials are 1..N and the counter holds N.
C2_ConcurrentSerialsDistinctNoGaps ==
    \A l \in Locations :
        /\ \A i, j \in 1..Len(issued[l]) : i # j => issued[l][i] # issued[l][j]
        /\ (\A s \in Sessions : pc[s] = "idle") =>
              /\ IssuedSerials(l) = 1..Len(issued[l])
              /\ po_counters[l] = Len(issued[l])

\* the quantity the draft of a session asks of an item
RECURSIVE Requested(_, _, _)
Requested(edits, boq_ref, n) ==
    IF n = 0 THEN 0
    ELSE Requested(edits, boq_ref, n - 1)
            + (IF edits[n].boq_ref = boq_ref THEN edits[n].Quantity ELSE 0)

\* C5: two allocations of two users on one item that together ask for more
\* than the item can take are never both accepted, however their reads,
\* validations and writes interleave.
C5_AtMostOneAccepted ==
    \A i \in Items :
        ~ /\ outcome["u1"].status = "accepted"
          /\ outcome["u2"].status = "accepted"
          /\ Requested(po_editor["u1"], i, Len(po_editor["u1"])) > 0
          /\ Requested(po_editor["u2"], i, Len(po_editor["u2"])) > 0
          /\ Requested(po_editor["u1"], i, Len(po_editor["u1"]))
                + Requested(po_editor["u2"], i, Len(po_editor["u2"]))
                   > boq_items[i].boq_qty

\* a step of the update loop of session s that is not its commit
UpdateLoopStep(s) ==
    /\ pc[s] \in {"select_row", "update_row"}
    /\ <<pc[s], local[s]>>' # <<pc[s], local[s]>>
    /\ outcome'[s].status # "accepted"

\* C8: no step of the update loop before the commit changes the stored
\* ledger, so when a statement fails after the UPDATE of row k the stored
\* ledger is the one before the allocation, and the failure leaves none of
\* the rows written for a later commit.
C8_FailurePersistsNothing ==
    [][\A s \in Sessions :
          UpdateLoopStep(s) =>
              /\ boq_items' = boq_items
              /\ outcome'[s].status = "failed" => tx'[s] = NoWrites]_vars

\* a two-row PO failed after the UPDATE of its first row: the stored row of
\* the first item is as ingested
C8_Witness ==
    \E s \in Sessions :
        /\ outcome[s].status = "failed"
        /\ Len(local[s].updated_df) = 2
        /\ \A n \in 1..2 : local[s].updated_df[n].Quantity > 0
        /\ local[s].k = 2
        /\ purchase_orders = <<>>
        /\ boq_items = InitItems(0)

\* ------------------------------------------------------ the price ceiling
\* a one-row draft with a positive quantity within the stored balance, the
\* balance and rate cells as read
SingleLineWithinBalance ==
    /\ Len(po_editor["u1"]) = 1
    /\ po_editor["u1"][1].Quantity > 0
    /\ po_editor["u1"][1].balance_to_deliver = <<>>
    /\ po_editor["u1"][1].rate = <<>>
    /\ po_editor["u1"][1].Quantity
          <= boq_items[po_editor["u1"][1].boq_ref].balance_to_deliver

\* C11: a line with a positive quantity within the balance is accepted
\* exactly when its unit price is at most rate x 1.10 computed exactly:
\* accepted at rate x 1.10 itself, rejected 0.01 above it.
C11_AcceptedIffWithinCeiling ==
    [][SingleLineWithinBalance /\ po_editor' = po_editor =>
          (outcome'["u1"].status = "accepted" <=>
              TheDraft[1].Unit_Price * 10 <= TheDraft[1].rate * 11)]_vars

\* ------------------------------------------------- rows of a two-row draft
\* the entries of the displayed error list that name an item
ErrorsOf(boq_ref) ==
    {n \in 1..Len(outcome["u1"].error_rows) :
        outcome["u1"].error_rows[n].boq_ref = boq_ref}

\* C12: a row with quantity 0, whatever its unit price and the balance of
\* its item, adds no entry to the error list, does not make the run
\* rejected (a rejected run has a failing row with a positive quantity) and
\* leaves the row of its item in boq_items as it was.
C12_ZeroQuantityRowIsValid ==
    [][po_editor' = po_editor =>
          \A k \in 1..Len(TheDraft) :
              TheDraft[k].Quantity = 0 =>
                  /\ \A n \in 1..Len(outcome'["u1"].error_rows) :
                        outcome'["u1"].error_rows[n].boq_ref # TheDraft[k].boq_ref
                  /\ outcome'["u1"].status = "rejected" => AnyLineFails(TheDraft)
                  /\ boq_items'[TheDraft[k].boq_ref] = boq_items[TheDraft[k].boq_ref]]_vars

\* a PO was accepted whose first row has quantity 0 and a price above the
\* ceiling: the row of its item is as ingested, the second row was delivered
C12_Witness ==
    /\ outcome["u1"].status = "accepted"
    /\ Len(TheDraft) = 2
    /\ TheDraft[1].Quantity = 0
    /\ PriceCeilingExceeded(TheDraft[1].Unit_Price, TheDraft[1].rate)
    /\ TheDraft[2].Quantity > 0
    /\ boq_items[TheDraft[1].boq_ref] = InitItems(0)[TheDraft[1].boq_ref]
    /\ boq_items[TheDraft[2].boq_ref] # InitItems(0)[TheDraft[2].boq_ref]

\* a row with a positive quantity above the balance and a price above the ceiling
LineFailsBoth(row) ==
    /\ row.Quantity > 0
    /\ row.Quantity > row.balance_to_deliver
    /\ PriceCeilingExceeded(row.Unit_Price, row.rate)

\* C13: for a row whose quantity exceeds the balance and whose unit price
\* exceeds the ceiling, the rejection reports both failures: the balance
\* with the quantity tried, and the ceiling with the price tried.
C13_BothFailuresReported ==
    outcome["u1"].status = "rejected" =>
        \A k \in 1..Len(TheDraft) :
            LineFailsBoth(TheDraft[k]) =>
                /\ \E n \in ErrorsOf(TheDraft[k].boq_ref) :
                      /\ outcome["u1"].error_rows[n].error = "balance"
                      /\ outcome["u1"].error_rows[n].limit = TheDraft[k].balance_to_deliver
                      /\ outcome["u1"].error_rows[n].tried = TheDraft[k].Quantity
                /\ \E n \in ErrorsOf(TheDraft[k].boq_ref) :
                      /\ outcome["u1"].error_rows[n].error = "price"
                      /\ outcome["u1"].error_rows[n].tried = TheDraft[k].Unit_Price

\* the rows of a draft that fail a check
FailingRows(df) == {k \in 1..Len(df) : LineFails(df[k])}

\* C14: the rejection lists every failing row, one entry for each, and no
\* row that passes: validation does not stop at the first failing row.
C14_EveryFailingRowListed ==
    outcome["u1"].status = "rejected" =>
        /\ Len(outcome["u1"].error_rows) = Cardinality(FailingRows(TheDraft))
        /\ \A k \in 1..Len(TheDraft) :
              (ErrorsOf(TheDraft[k].boq_ref) # {}) <=> k \in FailingRows(TheDraft)

\* a draft was rejected with both of its rows listed
C14_Witness ==
    /\ outcome["u1"].status = "rejected"
    /\ Len(outcome["u1"].error_rows) = 2
    /\ FailingRows(TheDraft) = {1, 2}

\* ------------------------------------------- one allocation after another
\* what is left of an item: boq_qty minus the ten slots
Remainder(boq_ref) ==
    boq_items[boq_ref].boq_qty - SumSlots(boq_items[boq_ref].delivered_qty, NumSlots)

\* the first row of the draft asks, cells as read, more than is left of its item
AsksMoreThanLeft ==
    /\ po_editor["u1"] # <<>>
    /\ po_editor["u1"][1].balance_to_deliver = <<>>
    /\ po_editor["u1"][1].Quantity > Remainder(po_editor["u1"][1].boq_ref)

\* C15: an allocation is validated against what the allocations before it
\* left: a row asking more than boq_qty minus the deliveries recorded is
\* rejected with the quantity tried and the quantity available, and the
\* slots, total and balance recorded by the earlier allocations stay.
C15_SecondValidatedAgainstRemainder ==
    [][AsksMoreThanLeft /\ po_editor' = po_editor =>
          /\ outcome'["u1"].status = "rejected"
          /\ outcome'["u1"].error_rows[1] =
                [boq_ref |-> po_editor["u1"][1].boq_ref, error |-> "balance",
                 limit |-> Remainder(po_editor["u1"][1].boq_ref),
                 tried |-> po_editor["u1"][1].Quantity]
          /\ boq_items' = boq_items]_vars

\* 60 of 100 were delivered to slot 1, then 50 were refused with 40 available
C15_Witness ==
    /\ Len(purchase_orders) = 1
    /\ boq_items["A"].delivered_qty[1] = 60 * Unit
    /\ boq_items["A"].total_delivery_qty = 60 * Unit
    /\ boq_items["A"].balance_to_deliver = 40 * Unit
    /\ outcome["u1"].status = "rejected"
    /\ outcome["u1"].error_rows =
          <<[boq_ref |-> "A", error |-> "balance", limit |-> 40 * Unit,
             tried |-> 50 * Unit]>>

\* ------------------------------------------------------------ the totals
RECURSIVE CommittedSubtotal(_, _)
\* the sum of quantity x unit price over the rows with a positive quantity
CommittedSubtotal(df, n) ==
    IF n = 0 THEN 0
    ELSE CommittedSubtotal(df, n - 1)
            + (IF df[n].Quantity > 0 THEN df[n].Quantity * df[n].Unit_Price ELSE 0)

\* C16: the subtotal of an accepted PO is the sum of quantity x unit price
\* over its committed rows (quantity > 0), the tax amount is subtotal x tax
\* percent / 100 and the grand total is subtotal plus tax amount.
C16_TotalsOfCommittedLines ==
    outcome["u1"].status = "accepted" =>
        LET subtotal == CommittedSubtotal(TheDraft, Len(TheDraft))
        IN  /\ outcome["u1"].po_summary.Subtotal = subtotal
            /\ outcome["u1"].po_summary.GST_Amount * 100
                  = subtotal * outcome["u1"].po_summary.GST_Percent * 100
            /\ outcome["u1"].po_summary.Grand_Total
                  = subtotal * 100 + outcome["u1"].po_summary.GST_Amount

\* ------------------------------------------- a location without counter row
\* C17: a call of generate_po_number for a location code without counter
\* row creates the row, returns serial 1 and leaves last_serial_number = 1,
\* and the next call for the code returns 2.
C17_AbsentRowStartsAtOne ==
    [][\A l \in Locations :
          issued'[l] # issued[l] =>
              /\ l \notin DOMAIN po_counters =>
                    /\ l \in DOMAIN po_counters'
                    /\ po_counters'[l] = 1
                    /\ issued'[l] = <<1>>
              /\ l \in DOMAIN po_counters /\ issued[l] = <<1>> =>
                    /\ po_counters'[l] = 2
                    /\ issued'[l] = <<1, 2>>]_vars

\* a code that had no row was issued 1 and then 2; the other code has no row yet
C17_Witness ==
    \E l \in Locations :
        /\ issued[l] = <<1, 2>>
        /\ DOMAIN po_counters = {l}
        /\ po_counters[l] = 2

\* the issuer call of s ends in an exception at its UPDATE/INSERT or commit
IssuerFails(s) ==
    /\ pc[s] \in {"issuer_update", "issuer_commit"}
    /\ pc'[s] = "idle"
    /\ outcome'[s].status = "failed"

\* C18: when the issuer's UPDATE/INSERT or its commit fails, the stored
\* counters are as before the step and the counter of the code is still the
\* value the failed call read; no serial is returned (nothing is recorded as
\* issued, the session keeps the number it had); the failure is reported and
\* nothing stays pending; and a retry made now would return the serial the
\* failed call had computed.
C18_FailedIssueLeavesCounter ==
    [][\A s \in Sessions :
          IssuerFails(s) =>
              LET l == local[s].location_code
                  n == local[s].next_serial
              IN  /\ po_counters' = po_counters
                  /\ po_counters'[l] = n - 1
                  /\ issued' = issued
                  /\ session_state' = session_state
                  /\ tx'[s] = NoWrites
                  /\ generate_po_number(po_counters', l, today').serial = n]_vars

\* a call failed, and the retry has reached its commit with the serial the
\* failed call had computed: one above the stored counter, returned to nobody
C18_Witness ==
    \E s \in Sessions :
        LET l == local[s].location_code
        IN  /\ outcome[s].status = "failed"
            /\ pc[s] = "issuer_commit"
            /\ local[s].next_serial = po_counters[l] + 1
            /\ tx[s].po_counters[l] = local[s].next_serial
            /\ \A i \in 1..Len(issued[l]) : issued[l][i] < local[s].next_serial

\* the number the last call for the code returned, where a session still holds it
LastReturned(l) ==
    {session_state[t][1] : t \in {u \in Sessions :
        /\ session_state[u] # <<>>
        /\ session_state[u][1].location_code = l
        /\ issued[l] # <<>>
        /\ session_state[u][1].serial = issued[l][Len(issued[l])]}}

\* C19: when the financial year has changed since the last call for a
\* location, the next call for it returns the previous serial + 1 (no restart
\* at 1) under the same code, with the label of the new financial year.
C19_SerialSurvivesYearChange ==
    [][\A s \in Sessions, l \in Locations :
          \A prev \in LastReturned(l) :
              /\ issued'[l] # issued[l]
              /\ session_state'[s] # session_state[s]
              /\ prev.fy_year # get_current_financial_year(today)
              => /\ session_state'[s][1].serial = prev.serial + 1
                 /\ session_state'[s][1].location_code = l
                 /\ session_state'[s][1].fy_year = get_current_financial_year(today)
                 /\ session_state'[s][1].fy_year # prev.fy_year
                 /\ po_counters'[l] = prev.serial + 1]_vars

\* two sessions hold consecutive numbers of one code, the first of financial
\* year 25-26 and the second of financial year 26-27
C19_Witness ==
    \E s, t \in Sessions, l \in Locations :
        /\ session_state[s] # <<>>
        /\ session_state[t] # <<>>
        /\ session_state[s][1].location_code = l
        /\ session_state[t][1].location_code = l
        /\ session_state[s][1].fy_year = <<25, 26>>
        /\ session_state[t][1].fy_year = <<26, 27>>
        /\ session_state[s][1].serial >= 1
        /\ session_state[t][1].serial = session_state[s][1].serial + 1
        /\ po_counters[l] = session_state[t][1].serial

\* the number of decimal digits of an n >= 0 below 100000
NumDigits(n) ==
    IF n < 10 THEN 1 ELSE IF n < 100 THEN 2 ELSE IF n < 1000 THEN 3
    ELSE IF n < 10000 THEN 4 ELSE 5

\* the number a sequence of digit characters denotes, read from the left
RECURSIVE DecimalValue(_)
DecimalValue(chars) ==
    IF chars = <<>>
    THEN 0
    ELSE 10 * DecimalValue(SubSeq(chars, 1, Len(chars) - 1))
         + (CHOOSE d \in 0..9 : DigitChar[d + 1] = chars[Len(chars)])

IsDigitChar(c) == \E d \in 0..9 : DigitChar[d + 1] = c

\* the string is "ZTPL-" + code + "/" + 2Kyy-2Kyy + "-" + the serial in
\* decimal with all its digits, at least three characters wide, zeros in front
WellFormedPONumber(po_number) ==
    LET t == po_number.text
        n == po_number.serial
        tail == SubSeq(t, 18, Len(t))
        yy1 == SubSeq(t, 10, 11)
        yy2 == SubSeq(t, 15, 16)
    IN  /\ Len(t) = 17 + (IF NumDigits(n) > 3 THEN NumDigits(n) ELSE 3)
        /\ SubSeq(t, 1, 5) = <<"Z", "T", "P", "L", "-">>
        /\ t[6] = po_number.location_code
        /\ t[7] = "/"
        /\ SubSeq(t, 8, 9) = <<"2", "K">>
        /\ SubSeq(t, 12, 14) = <<"-", "2", "K">>
        /\ \A i \in 1..2 : IsDigitChar(yy1[i]) /\ IsDigitChar(yy2[i])
        /\ DecimalValue(yy1) = po_number.fy_year[1]
        /\ DecimalValue(yy2) = po_number.fy_year[2]
        /\ t[17] = "-"
        /\ \A i \in 1..Len(tail) : IsDigitChar(tail[i])
        /\ DecimalValue(tail) = n
        /\ \A i \in 1..(Len(tail) - NumDigits(n)) : tail[i] = "0"

\* C20: every number a session holds from generate_po_number is the string
\* "ZTPL-" + location code + "/" + fiscal label + "-" + serial, the serial
\* written in decimal and filled with zeros on the left to at least 3 digits,
\* with all its digits kept when it is above 999.
C20_NumberIsPaddedSerial ==
    \A s \in Sessions :
        session_state[s] # <<>> =>
            /\ session_state[s][1].serial >= 1
            /\ WellFormedPONumber(session_state[s][1])

\* sessions hold a number with a padded serial and one with a serial of four
\* digits, all of them in the string
C20_Witness ==
    \E s, t \in Sessions :
        /\ session_state[s] # <<>>
        /\ session_state[t] # <<>>
        /\ session_state[s][1].serial = 9
        /\ SubSeq(session_state[s][1].text, 18, 20) = <<"0", "0", "9">>
        /\ session_state[t][1].serial = 1000
        /\ SubSeq(session_state[t][1].text, 18, 21) = <<"1", "0", "0", "0">>
        /\ Len(session_state[t][1].text) = 21

\* the year a financial year starts in: the date's year from April on, the
\* year before in January to March
StartYear(d) == IF d.month \in 1..3 THEN d.year - 1 ELSE d.year

\* the fiscal label inside the string of a PO number
LabelOf(po_number) == SubSeq(po_number.text, 8, 16)

\* C21: the label of a number issued on a date is "2K" + the last two digits
\* of the start year + "-2K" + the last two digits of the start year + 1,
\* whatever the counters and whoever calls; 2025-03-31 gives 2K24-2K25 and
\* 2025-04-01 gives 2K25-2K26.
C21_LabelOfTheDate ==
    [][\A s \in Sessions :
          session_state'[s] # session_state[s] =>
              LET label == LabelOf(session_state'[s][1])
              IN  /\ SubSeq(label, 1, 2) = <<"2", "K">>
                  /\ DecimalValue(SubSeq(label, 3, 4)) = StartYear(today) % 100
                  /\ SubSeq(label, 5, 7) = <<"-", "2", "K">>
                  /\ DecimalValue(SubSeq(label, 8, 9)) = (StartYear(today) + 1) % 100
                  /\ today = [year |-> 2025, month |-> 3, day |-> 31] =>
                        label = <<"2", "K", "2", "4", "-", "2", "K", "2", "5">>
                  /\ today = [year |-> 2025, month |-> 4, day |-> 1] =>
                        label = <<"2", "K", "2", "5", "-", "2", "K", "2", "6">>]_vars

\* one session was given a number on 2025-03-31 and the other on 2025-04-01
C21_Witness ==
    \E s, t \in Sessions :
        /\ today = [year |-> 2025, month |-> 4, day |-> 1]
        /\ session_state[s] # <<>>
        /\ session_state[t] # <<>>
        /\ session_state[s][1].serial = 1
        /\ session_state[t][1].serial = 2
        /\ LabelOf(session_state[s][1]) = <<"2", "K", "2", "4", "-", "2", "K", "2", "5">>
        /\ LabelOf(session_state[t][1]) = <<"2", "K", "2", "5", "-", "2", "K", "2", "6">>

\* the ids of the BOQ items of a project
ItemsOf(items, project_id) ==
    {id \in DOMAIN items : items[id].project_id = project_id}

\* C22: a deletion of a project removes all rows of boq_items with its
\* project_id and no other row, and leaves every field of the rows of the
\* other projects as it was.
C22_DeletionRemovesOnlyItsItems ==
    [][(outcome' # outcome \/ boq_items' # boq_items) =>
          \E project_id \in ProjectIds :
              /\ ItemsOf(boq_items, project_id) # {}
              /\ ItemsOf(boq_items', project_id) = {}
              /\ DOMAIN boq_items' = DOMAIN boq_items \ ItemsOf(boq_items, project_id)
              /\ \A id \in DOMAIN boq_items' : boq_items'[id] = boq_items[id]]_vars

\* project 2 was deleted: none of its items is left, and projects 1 and 3
\* keep theirs, a delivered quantity among them
C22_Witness ==
    /\ outcome["u1"].status = "deleted"
    /\ ItemsOf(boq_items, 2) = {}
    /\ ItemsOf(boq_items, 1) # {}
    /\ ItemsOf(boq_items, 3) # {}
    /\ \E id \in ItemsOf(boq_items, 1) : boq_items[id].delivered_qty[1] = Cent

\* the run of Generate Purchase Order of this step was accepted
AllocationAccepted == Len(purchase_orders') = Len(purchase_orders) + 1

\* the run of Generate Purchase Order of this step was rejected
AllocationRejected ==
    /\ outcome'["u1"].status = "rejected"
    /\ outcome' # outcome

\* C23: an accepted run of Generate Purchase Order advances the counter of
\* the location of its PO number by exactly 1 and no other counter, and a
\* rejected run advances no counter.
C23_AcceptedAllocationAdvancesCounter ==
    [][/\ AllocationAccepted =>
             LET l == purchase_orders'[Len(purchase_orders')].PO_Number.location_code
             IN  /\ po_counters'[l] = po_counters[l] + 1
                 /\ \A m \in Locations \ {l} : po_counters'[m] = po_counters[m]
       /\ AllocationRejected => po_counters' = po_counters]_vars

\* the rows of the draft with the balance and the rate the ledger stores for
\* their items in place of the cells of the editor
DraftOnStoredValues ==
    [k \in 1..Len(TheDraft) |->
        [TheDraft[k] EXCEPT
            !.balance_to_deliver = boq_items[TheDraft[k].boq_ref].balance_to_deliver,
            !.rate = boq_items[TheDraft[k].boq_ref].rate]]

\* C24: a run of Generate Purchase Order is rejected exactly when a row with
\* a quantity fails against the balance and the rate stored in boq_items at
\* that moment; what the balance and rate cells of the draft show does not
\* enter the verdict.
C24_ValidatedAgainstStoredValues ==
    [][outcome' # outcome /\ outcome'["u1"].status \in {"accepted", "rejected"} =>
          (outcome'["u1"].status = "rejected" <=> validation_failed(DraftOnStoredValues))]_vars

\* the quantity the rows of the draft with a quantity > 0 ask of item i
Ordered(i) == Requested(po_editor["u1"], i, Len(po_editor["u1"]))

\* C25: an accepted run of Generate Purchase Order applies every row with a
\* quantity q > 0 once to its item: the selected slot of the item grows by
\* q, total_delivery_qty grows by q and balance_to_deliver falls by q.
C25_LineAppliedOnce ==
    [][AllocationAccepted =>
          \A i \in Items :
              Ordered(i) > 0 =>
                  /\ \E k \in Slots :
                        boq_items'[i].delivered_qty[k]
                            = boq_items[i].delivered_qty[k] + Ordered(i)
                  /\ boq_items'[i].total_delivery_qty
                        = boq_items[i].total_delivery_qty + Ordered(i)
                  /\ boq_items'[i].balance_to_deliver
                        = boq_items[i].balance_to_deliver - Ordered(i)]_vars

\* C26: an accepted run of Generate Purchase Order for slot k leaves, of an
\* item a row with a quantity > 0 names, the nine other slots, boq_qty and
\* rate as they were and changes slot k, and leaves every field of the items
\* no such row names as it was.
C26_OnlyTheSlotAndTotalsChange ==
    [][\A k \in Slots :
          GeneratePurchaseOrder("u1", "HR", k, current_po("u1", "HR"))
              /\ AllocationAccepted =>
          \A i \in Items :
              IF Ordered(i) > 0
              THEN /\ \A j \in Slots \ {k} :
                         boq_items'[i].delivered_qty[j] = boq_items[i].delivered_qty[j]
                   /\ boq_items'[i].delivered_qty[k] > boq_items[i].delivered_qty[k]
                   /\ boq_items'[i].boq_qty = boq_items[i].boq_qty
                   /\ boq_items'[i].rate = boq_items[i].rate
                   /\ DOMAIN boq_items'[i] = DOMAIN boq_items[i]
              ELSE boq_items'[i] = boq_items[i]]_vars

\* item A took 40 in its first slot and then 50 in its second: the first
\* slot keeps the 40, the eight other slots are empty, and item B, which no
\* row ordered, is as ingested
C26_Witness ==
    /\ Len(purchase_orders) = 2
    /\ boq_items["A"].delivered_qty[1] = 40 * Unit
    /\ boq_items["A"].delivered_qty[2] = 50 * Unit
    /\ \A j \in 3..NumSlots : boq_items["A"].delivered_qty[j] = 0
    /\ boq_items["A"].boq_qty = ScenarioItems["A"].boq_qty
    /\ boq_items["A"].rate = ScenarioItems["A"].rate
    /\ boq_items["B"] = ScenarioItems["B"]

\* the two sessions have each had one allocation accepted, for the drafts
\* their editors still show, and nothing is in progress
BothAccepted ==
    /\ Len(purchase_orders) = 2
    /\ \A s \in Sessions : pc[s] = "idle" /\ outcome[s].status = "accepted"

\* the quantity the two drafts ask of item i together
OrderedByBoth(i) ==
    Requested(po_editor["u1"], i, Len(po_editor["u1"]))
        + Requested(po_editor["u2"], i, Len(po_editor["u2"]))

\* C28: when the allocations of two sessions on the items of one project
\* have both been accepted, however their statements interleaved, the slot
\* they delivered to holds the quantities of both, and total_delivery_qty
\* and balance_to_deliver account for both.
C28_BothDeliveriesRecorded ==
    BothAccepted =>
        \A i \in Items :
            /\ boq_items[i].delivered_qty[1] = OrderedByBoth(i)
            /\ boq_items[i].total_delivery_qty = OrderedByBoth(i)
            /\ boq_items[i].balance_to_deliver = boq_items[i].boq_qty - OrderedByBoth(i)

\* C27: a deletion of a location leaves the counter row of its code in
\* place with the last_serial_number it had, and no call of the issuer
\* returns a serial that was returned for the code before, a re-created
\* location included.
C27_DeletedLocationKeepsCounter ==
    [][\A l \in Locations :
          /\ l \in locations /\ l \notin locations' =>
                /\ l \in DOMAIN po_counters'
                /\ po_counters'[l] = po_counters[l]
          /\ issued'[l] # issued[l] =>
                \A i \in 1..Len(issued[l]) : issued[l][i] # issued'[l][Len(issued'[l])]]_vars

\* C29: an Add Location for a code that exists is answered with the error
\* naming the code and changes neither the locations nor any counter; no
\* step resets or removes the counter of a location that stays, and "added"
\* is shown only when the locations have changed.
C29_DuplicateLocationRejected ==
    [][/\ outcome' # outcome /\ outcome'["u1"].status = "rejected" =>
             /\ outcome'["u1"].error_rows[1].location_code \in locations
             /\ outcome'["u1"].error_rows[1].error = "already exists"
             /\ locations' = locations
             /\ po_counters' = po_counters
       /\ outcome' # outcome /\ outcome'["u1"].status = "added" =>
             /\ locations' # locations
             /\ \A l \in locations : l \in locations'
       /\ \A l \in locations \cap locations' :
             l \in DOMAIN po_counters =>
                 /\ l \in DOMAIN po_counters'
                 /\ po_counters'[l] >= po_counters[l]]_vars

\* the admin tried to add a code whose location had issued serials: the
\* error is shown, the location is there and its counter is where it was
C29_Witness ==
    \E l \in Locations :
        /\ outcome["u1"].status = "rejected"
        /\ outcome["u1"].error_rows[1].location_code = l
        /\ l \in locations
        /\ po_counters[l] >= 2
        /\ issued[l] # <<>>
        /\ po_counters[l] = issued[l][Len(issued[l])]

\* C30: a call of the issuer for a location changes the counter of that
\* location alone, and showing the PO number of a location, the preview of
\* the next number included, changes no counter and issues nothing.
C30_CountersIndependent ==
    [][/\ \A l \in Locations :
             issued'[l] # issued[l] =>
                 /\ po_counters'[l] = issued'[l][Len(issued'[l])]
                 /\ \A m \in DOMAIN po_counters \ {l} :
                       /\ m \in DOMAIN po_counters'
                       /\ po_counters'[m] = po_counters[m]
                 /\ DOMAIN po_counters' = DOMAIN po_counters \cup {l}
       /\ local' # local =>
             /\ po_counters' = po_counters
             /\ issued' = issued
             /\ session_state' = session_state]_vars

\* the counters of the two locations stand apart, and the page shows the
\* preview of the next number of one of them: one above its counter
C30_Witness ==
    /\ session_state["u1"] = <<>>
    /\ DOMAIN po_counters = Locations
    /\ po_counters["HR"] = 2
    /\ po_counters["DL"] = 0
    /\ local["u1"].location_code = "HR"
    /\ local["u1"].po_number # <<>>
    /\ local["u1"].po_number[1].serial = 3
====
